---- MODULE Spec2Model ----
(***************************************************************************)
(* react-eve-hook: useEve (a per-component ledger of (event, handler)      *)
(* pairs mirrored on one shared mitt emitter), useEveListen (one direct    *)
(* subscription per effect run), and the free emit `eve`.                  *)
(*                                                                         *)
(* Events are JavaScript numbers (0 is a legal event identifier and is     *)
(* falsy), handlers are function references (identity = their number,      *)
(* never falsy).  mitt's wildcard event "*" is outside the event domain.   *)
(***************************************************************************)
EXTENDS Integers, Sequences, FiniteSets

\* JavaScript null / undefined as the value of an omitted filter of off().
Null == -1

\* The value a handler receives when emit is called without data.
Undefined == "undefined"

Events == 0..2
Handlers == 1..5
Data == {Undefined, "d1"}
Ledgers == {"A", "B"}

\* The handlers that components pass to off() as its handler filter.
FilterHandlers == {2, 5}

\* The events and handlers a component passes to useEveListen (the handler
\* may also be undefined: Null).
ListenEvents == {1, 2}
ListenHandlers == {2, 5}

\* The handlers for which a failing registry makes emitter.off throw.
ThrowingHandlers == {2}

\* The useEve components rendered next to the useEveListen component.
ListenPeers == {"A"}

\* The longest tracking array a component builds.
MaxLen == 12

\* The most handlers the registry holds for one event.
MaxSubs == 5

Entry(e, h) == [event |-> e, handler |-> h]

\* The pairs each component registers, in the order its code registers them
\* (a pair may be registered again at any time; new pairs come in this order).
Program ==
  [A |-> << Entry(0, 1), Entry(0, 2), Entry(1, 2), Entry(1, 1),
            Entry(2, 1), Entry(0, 3), Entry(1, 3), Entry(2, 3),
            Entry(0, 4), Entry(1, 4), Entry(2, 2), Entry(2, 4) >>,
   B |-> << Entry(2, 2), Entry(1, 5) >>]

VARIABLES
  all,         \* mitt's registry: event -> list of handlers
  handlerRef,  \* handlerRef.current of each useEve instance
  life,        \* "fresh" (not rendered yet), "mounted", "unmounted"
  calls,       \* handler invocations made by the API call just executed
  emitted,     \* the (event, data) of that call when it was an emit
  listen       \* the useEveListen component: phase, and the effect's deps

vars == <<all, handlerRef, life, calls, emitted, listen>>

NoEmit == [event |-> Null, data |-> Undefined]

--------------------------------------------------------------------------
(* Sequence helpers *)

Range(s) == {s[i] : i \in 1..Len(s)}

RECURSIVE Count(_, _)
Count(s, x) ==
  IF s = <<>> THEN 0
  ELSE (IF Head(s) = x THEN 1 ELSE 0) + Count(Tail(s), x)

IndexOf(s, x) ==
  IF \E i \in 1..Len(s) : s[i] = x
  THEN (CHOOSE i \in 1..Len(s) : s[i] = x /\ \A j \in 1..(i - 1) : s[j] /= x) - 1
  ELSE -1

\* Array.prototype.splice(i, 1) for i >= 0: past the end it removes nothing.
Splice(s, i) ==
  IF i < Len(s)
  THEN [k \in 1..(Len(s) - 1) |-> IF k <= i THEN s[k] ELSE s[k + 1]]
  ELSE s

Reverse(s) == [k \in 1..Len(s) |-> s[Len(s) + 1 - k]]

--------------------------------------------------------------------------
(* mitt *)

\* JavaScript truthiness of an event / handler argument.
Falsy(v) == v = Null \/ v = 0

EmitterOn(a, e, h) == [a EXCEPT ![e] = Append(@, h)]

\* No list for the type: nothing.  No handler: the type's list is emptied.
\* Else handlers.splice(handlers.indexOf(handler) >>> 0, 1): the first
\* occurrence goes; an absent handler gives index 2^32 - 1, nothing is removed.
EmitterOff(a, e, h) ==
  IF e \notin DOMAIN a THEN a
  ELSE IF h = Null THEN [a EXCEPT ![e] = <<>>]
  ELSE IF IndexOf(a[e], h) >= 0
       THEN [a EXCEPT ![e] = Splice(@, IndexOf(a[e], h))]
       ELSE a

\* handlers.slice().map(handler => handler(evt))
EmitterEmit(a, e, d) == [k \in 1..Len(a[e]) |-> [handler |-> a[e][k], data |-> d]]

--------------------------------------------------------------------------
(* Array.prototype.sort() without a comparator: elements are compared as   *)
(* strings, by UTF-16 code unit.                                           *)

RECURSIVE ToString(_)
ToString(n) == IF n < 10 THEN <<n>> ELSE Append(ToString(n \div 10), n % 10)

RECURSIVE StrLess(_, _)
StrLess(s, t) ==
  IF t = <<>> THEN FALSE
  ELSE IF s = <<>> THEN TRUE
  ELSE IF Head(s) /= Head(t) THEN Head(s) < Head(t)
  ELSE StrLess(Tail(s), Tail(t))

RECURSIVE Insert(_, _)
Insert(s, x) ==
  IF s = <<>> THEN <<x>>
  ELSE IF StrLess(ToString(x), ToString(Head(s))) THEN <<x>> \o s
  ELSE <<Head(s)>> \o Insert(Tail(s), x)

RECURSIVE Sort(_)
Sort(s) == IF s = <<>> THEN <<>> ELSE Insert(Sort(Tail(s)), Head(s))

--------------------------------------------------------------------------
(* useEve *)

Has(list, e, h) == \E i \in 1..Len(list) : list[i] = Entry(e, h)

\* The filter of off(): (!event || event === e) && (!handler || handler === h)
Matches(event, handler, entry) ==
  /\ (Falsy(event) \/ event = entry.event)
  /\ (Falsy(handler) \/ handler = entry.handler)

\* deleteIndex: the 0-based indices of the matching entries, ascending.
RECURSIVE DeleteIndexFrom(_, _, _, _)
DeleteIndexFrom(list, event, handler, i) ==
  IF i > Len(list) THEN <<>>
  ELSE (IF Matches(event, handler, list[i]) THEN <<i - 1>> ELSE <<>>)
       \o DeleteIndexFrom(list, event, handler, i + 1)

DeleteIndex(list, event, handler) == DeleteIndexFrom(list, event, handler, 1)

\* emitter.off(event, handler) with the arguments of off() itself, once per
\* matching entry.
OffCallsOfFilter(list, event, handler) ==
  [k \in 1..Len(SelectSeq(list, LAMBDA entry : Matches(event, handler, entry)))
     |-> Entry(event, handler)]

\* The emitter.off(e, h) calls off() issues, in order.
OffCalls(list, event, handler) ==
  SelectSeq(list, LAMBDA entry : Matches(event, handler, entry))

RECURSIVE OffEach(_, _)
OffEach(a, entries) ==
  IF entries = <<>> THEN a
  ELSE OffEach(EmitterOff(a, Head(entries).event, Head(entries).handler),
               Tail(entries))

RECURSIVE SpliceEach(_, _)
SpliceEach(list, idx) ==
  IF idx = <<>> THEN list
  ELSE SpliceEach(Splice(list, Head(idx)), Tail(idx))

\* deleteIndex.sort().reverse().forEach(i => handlerRef.current.splice(i, 1))
OffList(list, event, handler) ==
  SpliceEach(list, Reverse(Sort(DeleteIndex(list, event, handler))))

\* The program position of the last pair component l tracks (0: none).
LastPos(l) ==
  IF \E k \in 1..Len(Program[l]) : Program[l][k] \in Range(handlerRef[l])
  THEN CHOOSE k \in 1..Len(Program[l]) :
         /\ Program[l][k] \in Range(handlerRef[l])
         /\ \A j \in (k + 1)..Len(Program[l]) :
              Program[l][j] \notin Range(handlerRef[l])
  ELSE 0

\* What component l may pass to on(): a pair it tracks already, or the pair
\* that follows the last tracked one in its program.
Registrable(l, k) ==
  \/ Program[l][k] \in Range(handlerRef[l])
  \/ k = LastPos(l) + 1

Init ==
  /\ all = [e \in Events |-> <<>>]
  /\ handlerRef = [l \in Ledgers |-> <<>>]
  /\ life = [l \in Ledgers |-> "fresh"]
  /\ calls = <<>>
  /\ emitted = NoEmit
  /\ listen = [phase |-> "fresh", event |-> Null, handler |-> Null]

\* No emit is running: API calls are synchronous and never overlap.
Idle == emitted = NoEmit

Quiet == UNCHANGED <<calls, emitted>>

Still == UNCHANGED listen

Mount(l) ==
  /\ Idle
  /\ life[l] = "fresh"
  /\ life' = [life EXCEPT ![l] = "mounted"]
  /\ handlerRef' = [handlerRef EXCEPT ![l] = <<>>]
  /\ Quiet
  /\ Still
  /\ UNCHANGED all

\* on() without the test for an existing entry.
OnUnchecked(l, e, h) ==
  /\ Idle
  /\ life[l] = "mounted"
  /\ Len(handlerRef[l]) < MaxLen
  /\ Len(all[e]) < MaxSubs
  /\ all' = EmitterOn(all, e, h)
  /\ handlerRef' = [handlerRef EXCEPT ![l] = Append(@, Entry(e, h))]
  /\ Quiet
  /\ Still
  /\ UNCHANGED life

\* on() that renews the subscription of a pair it tracks already:
\* emitter.off(event, handler) and then emitter.on(event, handler).
OnResubscribe(l, e, h) ==
  /\ Idle
  /\ life[l] = "mounted"
  /\ Quiet
  /\ Still
  /\ UNCHANGED life
  /\ IF Has(handlerRef[l], e, h)
     THEN /\ all' = EmitterOn(EmitterOff(all, e, h), e, h)
          /\ UNCHANGED handlerRef
     ELSE /\ Len(handlerRef[l]) < MaxLen
          /\ Len(all[e]) < MaxSubs
          /\ all' = EmitterOn(all, e, h)
          /\ handlerRef' = [handlerRef EXCEPT ![l] = Append(@, Entry(e, h))]

\* on() that subscribes before it tests for an existing entry.
OnSubscribeFirst(l, e, h) ==
  /\ Idle
  /\ life[l] = "mounted"
  /\ Len(all[e]) < MaxSubs
  /\ all' = EmitterOn(all, e, h)
  /\ IF Has(handlerRef[l], e, h)
     THEN UNCHANGED handlerRef
     ELSE /\ Len(handlerRef[l]) < MaxLen
          /\ handlerRef' = [handlerRef EXCEPT ![l] = Append(@, Entry(e, h))]
  /\ Quiet
  /\ Still
  /\ UNCHANGED life

On(l, e, h) ==
  /\ Idle
  /\ life[l] = "mounted"
  /\ Quiet
  /\ Still
  /\ UNCHANGED life
  /\ IF Has(handlerRef[l], e, h)
     THEN UNCHANGED <<all, handlerRef>>
     ELSE /\ Len(handlerRef[l]) < MaxLen
          /\ Len(all[e]) < MaxSubs
          /\ all' = EmitterOn(all, e, h)
          /\ handlerRef' = [handlerRef EXCEPT ![l] = Append(@, Entry(e, h))]

\* Component l registers the k-th pair of its program.
Register(l, k) ==
  /\ On(l, Program[l][k].event, Program[l][k].handler)
  /\ Registrable(l, k)

Off(l, event, handler) ==
  /\ Idle
  /\ life[l] = "mounted"
  /\ Quiet
  /\ Still
  /\ UNCHANGED life
  /\ all' = OffEach(all, OffCalls(handlerRef[l], event, handler))
  /\ handlerRef' = [handlerRef EXCEPT ![l] = OffList(@, event, handler)]

Clear(l) ==
  /\ Idle
  /\ life[l] = "mounted"
  /\ all' = OffEach(all, handlerRef[l])
  /\ handlerRef' = [handlerRef EXCEPT ![l] = <<>>]
  /\ Quiet
  /\ Still
  /\ UNCHANGED life

\* emit that forwards the event and drops the data: emitter.emit(event).
EmitWithoutData(l, e, d) ==
  /\ Idle
  /\ life[l] = "mounted"
  /\ calls' = EmitterEmit(all, e, Undefined)
  /\ emitted' = [event |-> e, data |-> d]
  /\ UNCHANGED <<all, handlerRef, life, listen>>

\* emit that invokes the handlers the component tracks, whatever their event:
\* handlerRef.current.forEach(({handler}) => handler(data)).
EmitTracked(l, e, d) ==
  /\ Idle
  /\ life[l] = "mounted"
  /\ calls' = [k \in 1..Len(handlerRef[l]) |->
                [handler |-> handlerRef[l][k].handler, data |-> d]]
  /\ emitted' = [event |-> e, data |-> d]
  /\ UNCHANGED <<all, handlerRef, life, listen>>

\* evn.emit(event, data) of a mounted component.
Emit(l, e, d) ==
  /\ Idle
  /\ life[l] = "mounted"
  /\ calls' = EmitterEmit(all, e, d)
  /\ emitted' = [event |-> e, data |-> d]
  /\ UNCHANGED <<all, handlerRef, life, listen>>

\* eve that publishes only when it is given data: data && emitter.emit(...).
EveIfData(e, d) ==
  /\ Idle
  /\ calls' = IF d = Undefined THEN <<>> ELSE EmitterEmit(all, e, d)
  /\ emitted' = [event |-> e, data |-> d]
  /\ UNCHANGED <<all, handlerRef, life, listen>>

\* The free function eve(event, data).
Eve(e, d) ==
  /\ Idle
  /\ calls' = EmitterEmit(all, e, d)
  /\ emitted' = [event |-> e, data |-> d]
  /\ UNCHANGED <<all, handlerRef, life, listen>>

\* The emit call returns to its caller once every handler has run.
Return ==
  /\ ~Idle
  /\ calls' = <<>>
  /\ emitted' = NoEmit
  /\ UNCHANGED <<all, handlerRef, life, listen>>

\* The cleanup of the mount effect.
Unmount(l) ==
  /\ Idle
  /\ life[l] = "mounted"
  /\ all' = OffEach(all, handlerRef[l])
  /\ life' = [life EXCEPT ![l] = "unmounted"]
  /\ Quiet
  /\ Still
  /\ UNCHANGED handlerRef

\* The cleanup without try / catch: the first throw ends the forEach and
\* leaves the cleanup as an exception.
UnmountAborting(l, f) ==
  /\ Idle
  /\ life[l] = "mounted"
  /\ Quiet
  /\ Still
  /\ LET throws == {i \in 1..Len(handlerRef[l]) : handlerRef[l][i].handler = f}
         done == IF throws = {}
                 THEN Len(handlerRef[l])
                 ELSE (CHOOSE i \in throws : \A j \in throws : i <= j) - 1
     IN  /\ all' = OffEach(all, SubSeq(handlerRef[l], 1, done))
         /\ life' = [life EXCEPT ![l] =
                       IF throws = {} THEN "unmounted" ELSE "failed"]
  /\ UNCHANGED handlerRef

\* The cleanup of the mount effect on a registry whose off throws for the
\* handler f (Null: for none): try { emitter.off(event, handler) } catch {}
\* goes on with the next entry.
UnmountThrowing(l, f) ==
  /\ Idle
  /\ life[l] = "mounted"
  /\ Quiet
  /\ Still
  /\ all' = OffEach(all, SelectSeq(handlerRef[l],
                                   LAMBDA entry : entry.handler /= f))
  /\ life' = [life EXCEPT ![l] = "unmounted"]
  /\ UNCHANGED handlerRef

--------------------------------------------------------------------------
(* useEveListen(event, handler): one effect with deps [event, handler]     *)

\* The component renders for the first time with these arguments.
ListenRender(e, h) ==
  /\ Idle
  /\ listen.phase = "fresh"
  /\ listen' = [phase |-> "rendered", event |-> e, handler |-> h]
  /\ Quiet
  /\ UNCHANGED <<all, handlerRef, life>>

\* emitter.on(event, handler) without the test of handler.
ListenEffectUnguarded ==
  /\ Idle
  /\ listen.phase \in {"rendered", "cleaned"}
  /\ all' = EmitterOn(all, listen.event, listen.handler)
  /\ listen' = [listen EXCEPT !.phase = "active"]
  /\ Quiet
  /\ UNCHANGED <<handlerRef, life>>

\* The effect body runs, after the first render ("rendered") or after the
\* cleanup of the previous run ("cleaned"):
\* if (handler) { emitter.on(event, handler); return cleanup }
ListenEffect ==
  /\ Idle
  /\ listen.phase \in {"rendered", "cleaned"}
  /\ all' = IF listen.handler /= Null
            THEN EmitterOn(all, listen.event, listen.handler)
            ELSE all
  /\ listen' = [listen EXCEPT !.phase = "active"]
  /\ Quiet
  /\ UNCHANGED <<handlerRef, life>>

\* The cleanup the last effect run returned, if it returned one:
\* () => emitter.off(event, handler), on the values that run captured.
ListenOff ==
  IF listen.handler /= Null
  THEN EmitterOff(all, listen.event, listen.handler)
  ELSE all

\* A cleanup that reads the arguments of the current render instead of
\* those its effect run captured.
ListenCleanupLatest(e, h) ==
  /\ Idle
  /\ listen.phase = "active"
  /\ <<e, h>> /= <<listen.event, listen.handler>>
  /\ all' = IF h /= Null THEN EmitterOff(all, e, h) ELSE all
  /\ listen' = [phase |-> "cleaned", event |-> e, handler |-> h]
  /\ Quiet
  /\ UNCHANGED <<handlerRef, life>>

\* A render with changed deps (e, h): the previous run's cleanup runs, the
\* effect body is due with the new values.
ListenCleanup(e, h) ==
  /\ Idle
  /\ listen.phase = "active"
  /\ <<e, h>> /= <<listen.event, listen.handler>>
  /\ all' = ListenOff
  /\ listen' = [phase |-> "cleaned", event |-> e, handler |-> h]
  /\ Quiet
  /\ UNCHANGED <<handlerRef, life>>

\* The component unmounts: the last run's cleanup runs.
ListenUnmount ==
  /\ Idle
  /\ listen.phase = "active"
  /\ all' = ListenOff
  /\ listen' = [listen EXCEPT !.phase = "unmounted"]
  /\ Quiet
  /\ UNCHANGED <<handlerRef, life>>

--------------------------------------------------------------------------
Next ==
  \/ \E l \in Ledgers : Mount(l)
  \/ \E l \in Ledgers : \E k \in 1..Len(Program[l]) : Register(l, k)
  \/ \E l \in Ledgers, e \in Events \cup {Null}, h \in FilterHandlers \cup {Null} :
       Off(l, e, h)
  \/ \E l \in Ledgers : Clear(l)
  \/ \E l \in Ledgers, e \in Events, d \in Data : Emit(l, e, d)
  \/ \E e \in Events, d \in Data : Eve(e, d)
  \/ Return
  \/ \E l \in Ledgers : Unmount(l)

Spec == Init /\ [][Next]_vars

\* A useEveListen component next to the useEve components of ListenPeers.
NextListen ==
  \/ \E l \in ListenPeers : Mount(l)
  \/ \E l \in ListenPeers : \E k \in 1..Len(Program[l]) : Register(l, k)
  \/ \E l \in ListenPeers, e \in Events \cup {Null}, h \in FilterHandlers \cup {Null} :
       Off(l, e, h)
  \/ \E l \in ListenPeers : Clear(l)
  \/ \E l \in ListenPeers, e \in Events, d \in Data : Emit(l, e, d)
  \/ \E e \in Events, d \in Data : Eve(e, d)
  \/ Return
  \/ \E l \in ListenPeers : Unmount(l)
  \/ \E e \in ListenEvents, h \in ListenHandlers \cup {Null} : ListenRender(e, h)
  \/ ListenEffect
  \/ \E e \in ListenEvents, h \in ListenHandlers \cup {Null} : ListenCleanup(e, h)
  \/ ListenUnmount

SpecListen == Init /\ [][NextListen]_vars

\* The useEve components on a registry whose off may throw at unmount.
NextThrowing ==
  \/ \E l \in Ledgers : Mount(l)
  \/ \E l \in Ledgers : \E k \in 1..Len(Program[l]) : Register(l, k)
  \/ \E l \in Ledgers, e \in Events \cup {Null}, h \in FilterHandlers \cup {Null} :
       Off(l, e, h)
  \/ \E l \in Ledgers : Clear(l)
  \/ \E l \in Ledgers, e \in Events, d \in Data : Emit(l, e, d)
  \/ \E e \in Events, d \in Data : Eve(e, d)
  \/ Return
  \/ \E l \in Ledgers, f \in ThrowingHandlers \cup {Null} : UnmountThrowing(l, f)

SpecThrowing == Init /\ [][NextThrowing]_vars

--------------------------------------------------------------------------
(* Vocabulary of the properties *)

ProgramHandlers(l) == {Program[l][k].handler : k \in 1..Len(Program[l])}

\* The handlers that only component l ever registers.
Private(l) ==
  ProgramHandlers(l) \ UNION {ProgramHandlers(m) : m \in Ledgers \ {l}}

EventFilters == Events \cup {Null}
HandlerFilters == FilterHandlers \cup {Null}

\* The entries of list the filter of off() leaves alone.
NonMatching(list, event, handler) ==
  SelectSeq(list, LAMBDA entry : ~Matches(event, handler, entry))

\* How often a publish of event e invokes handler h.
Subs(a, e, h) == Count(a[e], h)

--------------------------------------------------------------------------
(* C1: once the unmount cleanup of a component has run, a publish of any   *)
(* event invokes none of the handlers that only this component registered, *)
(* whatever on / off / clear calls came before, and also when another      *)
(* component is mounted and used afterwards.                               *)
C1_UnmountedNotInvoked ==
  \A l \in Ledgers :
    life[l] = "unmounted" =>
      \A k \in 1..Len(calls) : calls[k].handler \notin Private(l)

(* C2: one off(event, handler) call leaves in the tracking array exactly   *)
(* the entries its filter does not match, in their original order.         *)
C2_OffKeepsExactlyNonMatching ==
  [][\A l \in Ledgers, event \in EventFilters, handler \in HandlerFilters :
       Off(l, event, handler) =>
         handlerRef'[l] = NonMatching(handlerRef[l], event, handler)]_vars

(* C3: registering a pair through a component any number of times is the   *)
(* same as registering it once: after on(e, h) the component tracks one    *)
(* entry for the pair and, h being a handler no other component uses, the  *)
(* registry holds one subscription of h for e (one call per publish).      *)
C3_RegisterTwiceIsOnce ==
  [][\A l \in Ledgers : \A k \in 1..Len(Program[l]) :
       Register(l, k) =>
         /\ Count(handlerRef'[l], Program[l][k]) = 1
         /\ Program[l][k].handler \in Private(l) =>
              Subs(all', Program[l][k].event, Program[l][k].handler) = 1]_vars

\* A call of off (any filter), of clear, or the unmount cleanup of l.
Removal(l) ==
  \/ \E event \in EventFilters, handler \in HandlerFilters : Off(l, event, handler)
  \/ Clear(l)
  \/ Unmount(l)

(* C4: off, clear and the unmount cleanup of one component never change    *)
(* what another component receives: a pair the other component tracks and  *)
(* is subscribed for, the same handler reference included, is still        *)
(* subscribed afterwards.                                                  *)
C4_OtherComponentUnaffected ==
  [][\A l \in Ledgers : \A m \in Ledgers \ {l} :
       (Removal(l) /\ life[m] = "mounted") =>
         \A i \in 1..Len(handlerRef[m]) :
           Subs(all, handlerRef[m][i].event, handlerRef[m][i].handler) >= 1 =>
             Subs(all', handlerRef[m][i].event, handlerRef[m][i].handler) >= 1]_vars

(* C5: off(e, h) with both arguments given removes the pair (e, h) of this *)
(* component and nothing else: every other entry stays tracked, and the    *)
(* registry loses one subscription of h for e and no other subscription.   *)
C5_OffPairRemovesOnlyThePair ==
  [][\A l \in Ledgers, e \in Events, h \in FilterHandlers :
       Off(l, e, h) =>
         /\ ~Has(handlerRef'[l], e, h)
         /\ \A i \in 1..Len(handlerRef[l]) :
              handlerRef[l][i] /= Entry(e, h) =>
                Has(handlerRef'[l], handlerRef[l][i].event, handlerRef[l][i].handler)
         /\ \A e2 \in Events, h2 \in Handlers :
              Subs(all', e2, h2) =
                Subs(all, e2, h2)
                  - (IF e2 = e /\ h2 = h /\ Has(handlerRef[l], e, h)
                        /\ Subs(all, e, h) > 0
                     THEN 1 ELSE 0)]_vars

(* C6: off(e) without a handler ends every subscription this component     *)
(* holds for e, and every entry of the component for another event stays   *)
(* tracked and subscribed.                                                 *)
C6_OffEventRemovesOnlyTheEvent ==
  [][\A l \in Ledgers, e \in Events :
       Off(l, e, Null) =>
         /\ \A h \in Private(l) :
              Has(handlerRef[l], e, h) => Subs(all', e, h) = 0
         /\ \A i \in 1..Len(handlerRef[l]) :
              handlerRef[l][i].event /= e =>
                /\ Has(handlerRef'[l], handlerRef[l][i].event, handlerRef[l][i].handler)
                /\ Subs(all', handlerRef[l][i].event, handlerRef[l][i].handler)
                     = Subs(all, handlerRef[l][i].event, handlerRef[l][i].handler)]_vars

(* C7: off(null, h) removes every entry of this component whose handler is *)
(* h, for all events, and every entry with another handler stays tracked   *)
(* and subscribed.                                                         *)
C7_OffHandlerRemovesOnlyTheHandler ==
  [][\A l \in Ledgers, h \in FilterHandlers :
       Off(l, Null, h) =>
         /\ \A e \in Events : ~Has(handlerRef'[l], e, h)
         /\ \A i \in 1..Len(handlerRef[l]) :
              handlerRef[l][i].handler /= h =>
                /\ Has(handlerRef'[l], handlerRef[l][i].event, handlerRef[l][i].handler)
                /\ Subs(all', handlerRef[l][i].event, handlerRef[l][i].handler)
                     = Subs(all, handlerRef[l][i].event, handlerRef[l][i].handler)]_vars

(* C8: off() and clear() leave the tracking array empty and end every      *)
(* subscription the component held, whatever the length of the array.      *)
C8_OffAllEmptiesTheLedger ==
  [][\A l \in Ledgers :
       (Off(l, Null, Null) \/ Clear(l)) =>
         /\ handlerRef'[l] = <<>>
         /\ \A e \in Events, h \in Private(l) :
              Has(handlerRef[l], e, h) => Subs(all', e, h) = 0]_vars

(* C9: clear() is off() without arguments: from any state the two calls    *)
(* issue the same emitter.off calls and leave the same tracking array and  *)
(* the same registry.                                                      *)
C9_ClearIsOffWithoutArguments ==
  [][\A l \in Ledgers :
       /\ Clear(l) <=> Off(l, Null, Null)
       /\ Clear(l) => OffCalls(handlerRef[l], Null, Null) = handlerRef[l]]_vars

\* The handlers a publish invoked, in the order of the calls.
Invoked == [k \in 1..Len(calls) |-> calls[k].handler]

(* C10: a publish of event e with payload d, through evn.emit or eve,      *)
(* invokes every handler once per subscription it holds for e, with d,     *)
(* and invokes no handler that is subscribed to other events only.         *)
C10_EmitInvokesSubscribers ==
  ~Idle =>
    /\ \A h \in Handlers : Count(Invoked, h) = Subs(all, emitted.event, h)
    /\ \A k \in 1..Len(calls) : calls[k].data = emitted.data

\* A publish with a payload reached a handler of each component and passed
\* over a handler subscribed to another event only.
C10_Witness ==
  /\ ~Idle
  /\ emitted.data = "d1"
  /\ \E k \in 1..Len(calls) : calls[k].handler \in Private("A")
  /\ \E k \in 1..Len(calls) : calls[k].handler \in Private("B")
  /\ \E e \in Events \ {emitted.event}, h \in Handlers :
       Subs(all, e, h) > 0 /\ Count(Invoked, h) = 0

(* C11: an off() call whose filter selects no entry of the component's     *)
(* tracking array (an argument that is given selects the entries equal to  *)
(* it, an omitted one selects all) changes neither the tracking array nor  *)
(* the registry: no emitter.off call is issued.                            *)
C11_OffWithoutMatchChangesNothing ==
  [][\A l \in Ledgers, event \in EventFilters, handler \in HandlerFilters :
       ( /\ Off(l, event, handler)
         /\ \A i \in 1..Len(handlerRef[l]) :
              \/ event /= Null /\ event /= handlerRef[l][i].event
              \/ handler /= Null /\ handler /= handlerRef[l][i].handler )
       => UNCHANGED <<all, handlerRef>>]_vars

(* C12: an emit of an event the registry holds no handler for invokes no   *)
(* handler and changes neither a tracking array nor the registry.          *)
C12_EmitWithoutHandlersIsQuiet ==
  [][(Idle /\ ~Idle' /\ all[emitted'.event] = <<>>) =>
       /\ calls' = <<>>
       /\ UNCHANGED <<all, handlerRef, life, listen>>]_vars

C12_Witness ==
  /\ ~Idle
  /\ all[emitted.event] = <<>>
  /\ calls = <<>>
  /\ \E e \in Events : all[e] /= <<>>
  /\ \E l \in Ledgers : life[l] = "mounted" /\ handlerRef[l] /= <<>>

(* C13: an emit (evn.emit or eve) called without data invokes every handler *)
(* subscribed to the event, once per subscription, and each invocation     *)
(* receives undefined.                                                     *)
C13_EmitWithoutDataPassesUndefined ==
  (~Idle /\ emitted.data = Undefined) =>
    /\ \A h \in Handlers : Count(Invoked, h) = Subs(all, emitted.event, h)
    /\ \A k \in 1..Len(calls) : calls[k].data = Undefined

C13_Witness ==
  /\ ~Idle
  /\ emitted.data = Undefined
  /\ Len(calls) >= 2
  /\ \A k \in 1..Len(calls) : calls[k].data = Undefined
  /\ \E h \in Handlers : Count(Invoked, h) = 1

\* The handlers of useEveListen that no useEve component next to it registers.
ListenOnly ==
  ListenHandlers \ UNION {ProgramHandlers(l) : l \in ListenPeers}

\* The last run of the effect subscribed h for e and was not cleaned up.
Holds(e, h) ==
  listen.phase = "active" /\ listen.event = e /\ listen.handler = h

(* C14: while a useEveListen component with a defined handler is mounted   *)
(* and its effect has run, its handler is subscribed to its event and an   *)
(* emit of the event invokes it; after the unmount, no emit invokes a      *)
(* handler on its behalf (a handler that only useEveListen subscribed is   *)
(* not subscribed and not invoked any more).                               *)
C14_ListenSubscribesWhileMounted ==
  /\ (listen.phase = "active" /\ listen.handler /= Null) =>
       /\ Subs(all, listen.event, listen.handler) >= 1
       /\ (~Idle /\ emitted.event = listen.event) =>
            Count(Invoked, listen.handler) >= 1
  /\ listen.phase = "unmounted" =>
       \A h \in ListenOnly :
         /\ \A e \in Events : Subs(all, e, h) = 0
         /\ Count(Invoked, h) = 0

(* C15: at every moment the registry holds at most one subscription on     *)
(* behalf of a useEveListen component, the one of the pair its last effect *)
(* run subscribed; when event or handler change, the old pair is           *)
(* unsubscribed before the new one is subscribed (stated for the handlers  *)
(* only useEveListen subscribes, whose subscriptions are all its own).     *)
C15_ListenHoldsOnlyTheCurrentPair ==
  \A e \in Events, h \in ListenOnly :
    Subs(all, e, h) = IF Holds(e, h) THEN 1 ELSE 0

C15_Witness ==
  /\ listen.phase = "cleaned"
  /\ listen.handler \in ListenOnly
  /\ \A e \in Events : Subs(all, e, listen.handler) = 0
  /\ all[listen.event] /= <<>>

(* C16: a useEveListen component with an undefined handler never changes   *)
(* the registry: its effect run subscribes nothing, and neither a re-run   *)
(* nor the unmount unsubscribes anything.                                  *)
C16_ListenWithoutHandlerIsInert ==
  [][( /\ listen.phase /= "fresh"
       /\ listen.handler = Null
       /\ listen'.phase /= listen.phase ) => all' = all]_vars

C16_Witness ==
  /\ listen.phase = "unmounted"
  /\ listen.handler = Null
  /\ all[listen.event] /= <<>>

(* C17: an event given to off() is never treated as "any event": for every *)
(* event identifier, the number 0 included, off(e) and off(e, h) leave     *)
(* every entry of another event in the tracking array, and off(e, h) also  *)
(* every entry of another handler.                                         *)
C17_GivenEventFilterIsNotMatchAny ==
  [][\A l \in Ledgers, e \in Events, h \in HandlerFilters :
       Off(l, e, h) =>
         \A i \in 1..Len(handlerRef[l]) :
           (handlerRef[l][i].event /= e
              \/ (h /= Null /\ handlerRef[l][i].handler /= h)) =>
             handlerRef[l][i] \in Range(handlerRef'[l])]_vars

(* C18: a tracking array never holds two entries with the same event and   *)
(* the same handler.                                                       *)
C18_NoDuplicateEntries ==
  \A l \in Ledgers :
    \A i, j \in 1..Len(handlerRef[l]) :
      i /= j => handlerRef[l][i] /= handlerRef[l][j]

C18_Witness ==
  \E l \in Ledgers :
    /\ life[l] = "mounted"
    /\ \E i, j \in 1..Len(handlerRef[l]) :
         i /= j /\ handlerRef[l][i].event = handlerRef[l][j].event
    /\ \E i, j \in 1..Len(handlerRef[l]) :
         i /= j /\ handlerRef[l][i].handler = handlerRef[l][j].handler

(* C19: an on() call adds at most one subscription: for a pair the         *)
(* component does not track, exactly one, of that handler for that event,  *)
(* and the pair is appended at the end of the tracking array; for a pair   *)
(* it tracks already, tracking array and registry stay as they are.        *)
C19_OnAddsAtMostOneSubscription ==
  [][\A l \in Ledgers : \A k \in 1..Len(Program[l]) :
       Register(l, k) =>
         IF Has(handlerRef[l], Program[l][k].event, Program[l][k].handler)
         THEN UNCHANGED <<all, handlerRef>>
         ELSE /\ handlerRef' =
                   [handlerRef EXCEPT ![l] = Append(@, Program[l][k])]
              /\ all' = [all EXCEPT ![Program[l][k].event] =
                                      Append(@, Program[l][k].handler)]]_vars

C19_Witness ==
  \E l \in Ledgers :
    /\ life[l] = "mounted"
    /\ Len(handlerRef[l]) >= 2
    /\ \A i \in 1..Len(handlerRef[l]) :
         Subs(all, handlerRef[l][i].event, handlerRef[l][i].handler) = 1
    /\ all[handlerRef[l][Len(handlerRef[l])].event]
         = <<handlerRef[l][Len(handlerRef[l])].handler>>

(* C20: off() issues one emitter.off call per matching entry, with the     *)
(* event and the handler stored in that entry, never with the (possibly    *)
(* null) arguments of off(): each matching pair loses one subscription,    *)
(* and no other subscription changes.                                      *)
C20_OffUnsubscribesTheStoredPairs ==
  [][\A l \in Ledgers, event \in EventFilters, handler \in HandlerFilters :
       (vars' /= vars /\ Off(l, event, handler)) =>
         \A e \in Events, h \in Handlers :
           Subs(all', e, h) =
             Subs(all, e, h)
               - (IF /\ h \in Range(all[e])
                     /\ Matches(event, handler, Entry(e, h))
                     /\ Has(handlerRef[l], e, h)
                  THEN 1 ELSE 0)]_vars

C20_Witness ==
  /\ life["A"] = "mounted"
  /\ handlerRef["A"] = <<Entry(0, 1), Entry(1, 1), Entry(2, 1)>>
  /\ all = [e \in Events |-> <<1>>]

(* C21: the unmount cleanup calls emitter.off for every entry of the       *)
(* tracking array; when the call throws for some entries, the cleanup      *)
(* still ends normally and every entry for which the call does not throw,  *)
(* the later ones included, loses its subscription.                        *)
C21_UnmountSwallowsFailures ==
  [][\A l \in Ledgers, f \in ThrowingHandlers \cup {Null} :
       UnmountThrowing(l, f) =>
         /\ life'[l] = "unmounted"
         /\ \A e \in Events, h \in Handlers :
              Subs(all', e, h) =
                Subs(all, e, h)
                  - (IF /\ h \in Range(all[e])
                        /\ h /= f
                        /\ Has(handlerRef[l], e, h)
                     THEN 1 ELSE 0)]_vars

C21_Witness ==
  \E l \in Ledgers :
    /\ life[l] = "unmounted"
    /\ \E i, j \in 1..Len(handlerRef[l]) :
         /\ i < j
         /\ handlerRef[l][i].handler \in ThrowingHandlers
         /\ \A m \in Ledgers \ {l} : handlerRef[l][i] \notin Range(Program[m])
         /\ Subs(all, handlerRef[l][i].event, handlerRef[l][i].handler) = 1
         /\ handlerRef[l][j].handler \in Private(l)
         /\ Subs(all, handlerRef[l][j].event, handlerRef[l][j].handler) = 0

(* C22: once the unmount cleanup of a component has run, its tracking      *)
(* array is empty.                                                         *)
C22_UnmountEmptiesTheLedger ==
  \A l \in Ledgers : life[l] = "unmounted" => handlerRef[l] = <<>>

\* s holds elements of t in the order they have in t.
RECURSIVE IsSubseq(_, _)
IsSubseq(s, t) ==
  IF s = <<>> THEN TRUE
  ELSE IF t = <<>> THEN FALSE
  ELSE IF Head(s) = Head(t) THEN IsSubseq(Tail(s), Tail(t))
  ELSE IsSubseq(s, Tail(t))

(* C23: an emit invokes the handlers of its event in the order in which    *)
(* their subscriptions were added to the registry, by whichever useEve or  *)
(* useEveListen component: every step either adds one subscription behind  *)
(* all others of its event or removes subscriptions and leaves the others  *)
(* in their order (an on() of a tracked pair moves nothing), and an emit   *)
(* calls the handlers in the order of the registry.                        *)
C23_EmitFollowsSubscriptionOrder ==
  [][/\ \A e \in Events :
          IF Len(all'[e]) > Len(all[e])
          THEN \E h \in Handlers : all'[e] = Append(all[e], h)
          ELSE IsSubseq(all'[e], all[e])
     /\ ~Idle' =>
          [k \in 1..Len(calls') |-> calls'[k].handler] = all'[emitted'.event]]_vars

C23_Witness ==
  /\ ~Idle
  /\ emitted.event = 1
  /\ Invoked = <<1, 2>>
  /\ Has(handlerRef["A"], 1, 1)
  /\ Holds(1, 2)

\* The mounted useEve components that track the pair (e, h).
Trackers(e, h) ==
  {l \in Ledgers : life[l] = "mounted" /\ Has(handlerRef[l], e, h)}

(* C24: in every reachable state and for every pair (e, h), the registry   *)
(* holds as many subscriptions of h for e as there are mounted useEve      *)
(* components that track the pair, plus one if a useEveListen effect holds *)
(* the pair.                                                               *)
C24_LedgersMirrorTheRegistry ==
  \A e \in Events, h \in Handlers :
    Subs(all, e, h) =
      Cardinality(Trackers(e, h)) + (IF Holds(e, h) THEN 1 ELSE 0)

(* C25: after an off() or clear() call of a component whose filter selects *)
(* the pair (e, h), the component no longer tracks the pair, so that a     *)
(* following on(e, h) is not taken for a duplicate and subscribes h again. *)
C25_RemovedPairCanBeRegisteredAgain ==
  [][\A l \in Ledgers, event \in EventFilters, handler \in HandlerFilters :
       ( /\ vars' /= vars
         /\ \/ Off(l, event, handler)
            \/ event = Null /\ handler = Null /\ Clear(l) )
       => \A i \in 1..Len(handlerRef[l]) :
            ( /\ event = Null \/ event = handlerRef[l][i].event
              /\ handler = Null \/ handler = handlerRef[l][i].handler )
            => ~Has(handlerRef'[l], handlerRef[l][i].event,
                                    handlerRef[l][i].handler)]_vars

(* C26: off() is idempotent: right after an off() call, the same call      *)
(* again would issue no emitter.off call and leave the tracking array and  *)
(* the registry as the first call left them.                               *)
C26_OffTwiceIsOffOnce ==
  [][\A l \in Ledgers, event \in EventFilters, handler \in HandlerFilters :
       (vars' /= vars /\ Off(l, event, handler)) =>
         /\ OffCalls(handlerRef'[l], event, handler) = <<>>
         /\ OffList(handlerRef'[l], event, handler) = handlerRef'[l]
         /\ OffEach(all', OffCalls(handlerRef'[l], event, handler)) = all']_vars

====
